---- MODULE Spec2Model ----
(***************************************************************************)
(* mBrain agent: the cron decision loop (agent/src/index.ts), the AI       *)
(* client (agent/src/ai/index.ts) and the keeper executor                  *)
(* (agent/src/keeper/index.ts) as one state machine.                       *)
(*                                                                         *)
(* Node runs one callback at a time: every action below is the code that   *)
(* runs between two awaits of real I/O (an RPC read, the LLM call, a       *)
(* transaction).  The results of the I/O are inputs drawn with \E.         *)
(***************************************************************************)
EXTENDS Integers, Sequences, FiniteSets, TLC

(* ---------------------------------------------------------------- bounds *)
\* cron ticks fired plus HTTP requests received in one behaviour
MaxEvents == 2
\* calls of registerCommitment made on their own in one behaviour
MaxRegistrations == 3
\* calls of addExecutionToHistory and analyses in the specification of the histories
MaxExecutions == 52
MaxAnalyses == 102
\* analyses that have tracked the APYs and not yet stored their recommendation
MaxPending == 2
\* the largest amount of a reserve reading
MaxReserve == 3
\* callbacks of the dashboard's agent loop waiting in setTimeout at once
MaxTimers == 2

(* ------------------------------------------------------ program constants *)
ConfidenceThreshold == 80
FallbackConfidence == 70
DefaultConfidence == 50
ExecutionHistoryCap == 50
RecommendationHistoryCap == 100
ApyHistoryCap == 100
Uint8Max == 255
MaxConfidence == 100

(* ------------------------------------------------------------ processes *)
Vaults == {"usdc", "weth"}
\* two activations of the cron callback can exist at once in the event loop
CronRuns == {"cron1", "cron2"}
Routes == {"analyze", "rebalance", "harvest", "data", "recommendation"}
Procs == CronRuns \cup Routes
Executors == CronRuns \cup {"rebalance", "harvest"}

NoVault == "none"
NoData == [timestamp |-> -1, vaults |-> [v \in Vaults |-> [needsRebalance |-> FALSE]]]
NoHash == <<>>
NoRecommendation ==
    [action |-> "", confidence |-> -1, timestamp |-> -1, commitmentHash |-> NoHash,
     fallback |-> FALSE]
NoStatus == [v \in Vaults |-> FALSE]
NoRequest == [vault |-> NoVault, functionName |-> ""]
NoTx == <<>>
NoResult == [success |-> FALSE, txHash |-> NoTx, error |-> "", timestamp |-> -1, id |-> <<>>]

(* ------------------------------------------------------- inputs (I/O) *)
\* what fetchProtocolData can resolve to: the needsRebalance flag of each vault
FetchedFlags == [Vaults -> BOOLEAN]
\* messages of the errors thrown by an RPC call; "" is an error without message
ErrorMessages == {"execution reverted", ""}
\* what anthropic.messages.create can produce
LLMResponses ==
    { [kind |-> "throw", action |-> "", confidence |-> 0],
      [kind |-> "nontext", action |-> "", confidence |-> 0],
      [kind |-> "badjson", action |-> "", confidence |-> 0],
      [kind |-> "json", action |-> "REBALANCE", confidence |-> 81],
      [kind |-> "json", action |-> "REBALANCE", confidence |-> 80],
      [kind |-> "json", action |-> "REBALANCE", confidence |-> 300],
      [kind |-> "json", action |-> "HARVEST", confidence |-> 90] }
\* what the LLM can produce when getAIRecommendation is looked at on its own:
\* also a missing action or confidence, an action outside the three and a
\* confidence above 100
AIResponses ==
    LLMResponses \cup
    { [kind |-> "json", action |-> "", confidence |-> 0],
      [kind |-> "json", action |-> "SELL", confidence |-> 90],
      [kind |-> "json", action |-> "HOLD", confidence |-> 150] }
\* addresses the vaults' keeper() and owner() can return
AccountAddress == "0xAb12"
Addresses == {"0xab12", "0xAB12", "0xcd34"}

(* ------------------------------------------------------- pure functions *)
\* ai/index.ts 43: the actions of the AIRecommendation type
Actions == {"HOLD", "REBALANCE", "HARVEST"}

\* String.prototype.toLowerCase on the addresses of the model
toLowerCase(a) ==
    IF a \in {"0xab12", "0xAB12", "0xAb12"} THEN "0xab12" ELSE a

\* keeper/index.ts 84-93: the isAuthorized part of getKeeperStatus' result
isAuthorizedCopied(usdcKeeper, wethKeeper, usdcOwner, wethOwner) ==
    [v \in Vaults |->
        IF v = "usdc"
        THEN \/ toLowerCase(usdcKeeper) = toLowerCase(AccountAddress)
             \/ toLowerCase(usdcOwner) = toLowerCase(AccountAddress)
        ELSE \/ toLowerCase(wethKeeper) = toLowerCase(AccountAddress)
             \/ toLowerCase(usdcOwner) = toLowerCase(AccountAddress)]
isAuthorized(usdcKeeper, wethKeeper, usdcOwner, wethOwner) ==
    [v \in Vaults |->
        IF v = "usdc"
        THEN \/ toLowerCase(usdcKeeper) = toLowerCase(AccountAddress)
             \/ toLowerCase(usdcOwner) = toLowerCase(AccountAddress)
        ELSE \/ toLowerCase(wethKeeper) = toLowerCase(AccountAddress)
             \/ toLowerCase(wethOwner) = toLowerCase(AccountAddress)]

\* ai/index.ts 57-68: encodePacked(['string','uint8','uint256']) throws when the
\* confidence does not fit a uint8; keccak256 is modelled as injective
CanEncode(rec) == rec.confidence \in 0..Uint8Max
generateCommitmentHashAll(rec) ==
    <<rec.action, rec.confidence, rec.timestamp, rec.reasoning>>
generateCommitmentHash(rec) == <<rec.action, rec.confidence, rec.timestamp>>

\* ai/index.ts 209-230: the recommendation built from the parsed JSON
ParsedRecommendation(resp, t) ==
    [action |-> IF resp.action = "" THEN "HOLD" ELSE resp.action,
     confidence |-> IF resp.confidence = 0 THEN DefaultConfidence ELSE resp.confidence,
     timestamp |-> t,
     commitmentHash |-> NoHash,
     fallback |-> FALSE]

\* ai/index.ts 244-269
getFallbackRecommendationUsdcOnly(data, t) ==
    [action |-> IF data.vaults["usdc"].needsRebalance THEN "REBALANCE" ELSE "HOLD",
     confidence |-> FallbackConfidence,
     timestamp |-> t,
     commitmentHash |-> NoHash,
     fallback |-> TRUE]
getFallbackRecommendation(data, t) ==
    LET needsRebalance == \/ data.vaults["usdc"].needsRebalance
                          \/ data.vaults["weth"].needsRebalance
    IN [action |-> IF needsRebalance THEN "REBALANCE" ELSE "HOLD",
        confidence |-> FallbackConfidence,
        timestamp |-> t,
        commitmentHash |-> NoHash,
        fallback |-> TRUE]

\* ai/index.ts 190-242: TRUE when the try block ends in the catch
LLMFails(resp, t) ==
    \/ resp.kind \in {"throw", "nontext", "badjson"}
    \/ ~CanEncode(ParsedRecommendation(resp, t))

\* ai/index.ts 190-242: the value getAIRecommendation resolves to
RecommendationOf(resp, data, t) ==
    IF LLMFails(resp, t)
    THEN getFallbackRecommendation(data, t)
    ELSE [ParsedRecommendation(resp, t) EXCEPT
            !.commitmentHash = generateCommitmentHash(ParsedRecommendation(resp, t))]

\* ai/index.ts 73-78: the registry after registerCommitment has set
\* rec.commitmentHash and stored rec under it
registerCommitmentNoStore(registry, rec) == registry
registerCommitment(registry, rec) ==
    [h \in DOMAIN registry \cup {rec.commitmentHash} |->
        IF h = rec.commitmentHash THEN rec ELSE registry[h]]

\* ai/index.ts 80-90
verifyCommitment(registry, hash) ==
    IF hash \notin DOMAIN registry
    THEN [valid |-> FALSE, recommendation |-> NoRecommendation]
    ELSE [valid |-> generateCommitmentHash(registry[hash]) = hash,
          recommendation |-> registry[hash]]

\* ai/index.ts 274-279
addToHistory(history, recommendation) ==
    LET h == <<recommendation>> \o history
    IN IF Len(h) > RecommendationHistoryCap THEN SubSeq(h, 1, Len(h) - 1) ELSE h

\* ai/index.ts 12-21
trackApyHistoryPop(history, t) ==
    LET h == Append(history, [timestamp |-> t])
    IN IF Len(h) > ApyHistoryCap THEN SubSeq(h, 1, Len(h) - 1) ELSE h
trackApyHistory(history, t) ==
    LET h == Append(history, [timestamp |-> t])
    IN IF Len(h) > ApyHistoryCap THEN Tail(h) ELSE h

\* keeper/index.ts 196-201
addExecutionToHistorySuccessOnly(history, result) ==
    IF result.success THEN <<result>> \o history ELSE history
addExecutionToHistoryNoCap(history, result) == <<result>> \o history
addExecutionToHistory(history, result) ==
    LET h == <<result>> \o history
    IN IF Len(h) > ExecutionHistoryCap THEN SubSeq(h, 1, Len(h) - 1) ELSE h

\* keeper/index.ts 143-148: error.message || 'Unknown error'
ErrorTextRaw(message) == message
ErrorText(message) == IF message = "" THEN "Unknown error" ELSE message

(* ------------------------------------------------------------- state *)
VARIABLES
    \* agent/src/index.ts 35-37
    latestData, latestRecommendation, isRunning,
    \* keeper/index.ts 38-39: TRUE once initializeKeeper has set account and walletClient
    account,
    \* ai/index.ts 10, 71, 272; keeper/index.ts 194
    apyHistory, commitmentRegistry, recommendationHistory, executionHistory,
    \* the await each callback is suspended at, and its local variables
    pc, local,
    \* history variables: the calls of executeRebalance/executeHarvest each
    \* callback made, with their steps; the outcome of each ended cron run; the
    \* last HTTP answer of each route; the counters of the bound
    callLog, runLog, response, ticks, skipped, requests,
    \* one call of getAIRecommendation on its own, with its inputs and its result
    aiCall,
    \* the calls of registerCommitment made on their own, and the last
    \* GET /api/commitments/:hash with its answer
    registerCalls, verifyCall,
    \* one call of getKeeperStatus on its own, with what its reads returned
    statusCall,
    \* the histories on their own: how many calls of addExecutionToHistory,
    \* trackApyHistory and addToHistory were made
    historyCalls,
    \* one call of fetchLendleData on its own, with the reserves it read
    lendleCall,
    \* the dashboard (frontend/src/app/page.tsx): the state of the Home component
    dashboard

storeVars == <<latestData, latestRecommendation, apyHistory, commitmentRegistry,
               recommendationHistory>>
countVars == <<ticks, skipped, requests>>
\* what only the specifications of single functions change
aloneVars == <<aiCall, registerCalls, verifyCall, statusCall, historyCalls, lendleCall,
               dashboard>>
\* what the agent as a whole changes
agentVars == <<latestData, latestRecommendation, isRunning, account, apyHistory,
               commitmentRegistry, recommendationHistory, executionHistory, pc, local,
               callLog, runLog, response, ticks, skipped, requests>>
vars == <<latestData, latestRecommendation, isRunning, account, apyHistory,
          commitmentRegistry, recommendationHistory, executionHistory, pc, local,
          callLog, runLog, response, ticks, skipped, requests, aiCall,
          registerCalls, verifyCall, statusCall, historyCalls, lendleCall, dashboard>>

\* everything the program itself keeps or does: all but the counters
programState == <<latestData, latestRecommendation, isRunning, account, apyHistory,
                  commitmentRegistry, recommendationHistory, executionHistory, pc,
                  local, callLog, runLog, response, aiCall, registerCalls,
                  verifyCall, statusCall, historyCalls, lendleCall, dashboard>>

NoResponse == [code |-> 0, error |-> ""]

\* the local variables of a callback that is not running: timestamp
\* (part_001 113), the argument of getAIRecommendation (ai/index.ts 143), status
\* (index.ts 199), vault (keeper/index.ts 96), request and hash (keeper/index.ts
\* 124, 132); run, runData and recommendation record which tick started a cron
\* run, what its fetchProtocolData and its getAIRecommendation resolved to
NoLocal ==
    [timestamp |-> -1, aiData |-> NoData, status |-> NoStatus, vault |-> NoVault,
     request |-> NoRequest, hash |-> NoTx, run |-> 0, runData |-> NoData,
     recommendation |-> NoRecommendation]

NoVerifyCall ==
    [hash |-> NoHash, valid |-> FALSE, recommendation |-> NoRecommendation, code |-> 0,
     error |-> ""]

NoStatusCall ==
    [usdcKeeper |-> "", wethKeeper |-> "", usdcOwner |-> "", wethOwner |-> "",
     result |-> NoStatus, settled |-> FALSE]
NoHistoryCalls == [executions |-> 0, analyses |-> 0, recommendations |-> 0]
\* a reserve is <<availableLiquidity, totalStableDebt, totalVariableDebt>>, the
\* first three outputs of getReserveData (part_001 42-45)
NoLendleCall ==
    [usdcReserve |-> <<0, 0, 0>>, wethReserve |-> <<0, 0, 0>>,
     usdcUtilization |-> 0, wethUtilization |-> 0, settled |-> FALSE, rejected |-> FALSE]
\* page.tsx 133-147: the state of Home before it is mounted; data,
\* recommendation and keeperStatus are null, timers are the callbacks given to
\* setTimeout by the agent loop that have not run yet, poll is the position of
\* fetchData
NoKeeperStatus == [loaded |-> FALSE, isAuthorized |-> NoStatus]
DefaultAgentConfig ==
    [enabled |-> FALSE, confidenceThreshold |-> ConfidenceThreshold,
     autoRebalance |-> TRUE, autoHarvest |-> FALSE]
NoDashboard ==
    [mounted |-> FALSE, agentConfig |-> DefaultAgentConfig, data |-> NoData,
     recommendation |-> NoRecommendation, keeperStatus |-> NoKeeperStatus,
     timers |-> <<>>, poll |-> "idle"]

NoAICall ==
    [resp |-> [kind |-> "", action |-> "", confidence |-> 0], flags |-> NoStatus,
     t |-> -1, result |-> NoRecommendation, settled |-> FALSE]

InitProgram ==
    /\ latestData = NoData
    /\ latestRecommendation = NoRecommendation
    /\ isRunning = FALSE
    /\ account \in BOOLEAN
    /\ apyHistory = <<>>
    /\ commitmentRegistry = <<>>
    /\ recommendationHistory = <<>>
    /\ executionHistory = <<>>
    /\ pc = [p \in Procs |-> "idle"]
    /\ local = [p \in Procs |-> NoLocal]
    /\ callLog = [p \in Executors |-> <<>>]
    /\ runLog = <<>>
    /\ response = [p \in Routes |-> NoResponse]
    /\ ticks = 0
    /\ skipped = 0
    /\ requests = 0
    /\ registerCalls = <<>>
    /\ verifyCall = NoVerifyCall

InitAlone ==
    /\ statusCall = NoStatusCall
    /\ historyCalls = NoHistoryCalls
    /\ lendleCall = NoLendleCall
    /\ dashboard = NoDashboard

Init == InitProgram /\ InitAlone /\ aiCall = NoAICall

(* ------------------------------------------------------- clock *)
\* Date.now(), in units of the cron period: the cron fires every 5 minutes
\* (index.ts 184), so the clock has advanced by one at every tick; two reads
\* between the same two ticks may return the same value
now == ticks

(* ------------------------------------------- oracle: fetchProtocolData *)
\* unnamed/part_001 112-145: the value fetchProtocolData resolves to
ProtocolData(t, flags) ==
    [timestamp |-> t, vaults |-> [v \in Vaults |-> [needsRebalance |-> flags[v]]]]

(* ------------------------------------------------ the cron's decisions *)
\* index.ts 185: the re-entrancy guard
CronBusyNever == FALSE
CronBusy == isRunning

\* index.ts 197: the auto-execution condition
AutoExecuteAnyConfidence(rec) == rec.action = "REBALANCE"
AutoExecute(rec) ==
    rec.action = "REBALANCE" /\ rec.confidence >= ConfidenceThreshold

\* index.ts 201, 207: the condition under which the run executes vault v
ShouldExecute(v, data, st) == data.vaults[v].needsRebalance /\ st[v]

\* index.ts 199-211: the vaults the run still has to look at after vault v
VaultsAfterRetry(v, result) ==
    IF ~result.success THEN <<v>>
    ELSE IF v = "usdc" THEN <<"weth">> ELSE <<>>
VaultsAfterStopOnFailure(v, result) ==
    IF result.success /\ v = "usdc" THEN <<"weth">> ELSE <<>>
VaultsAfter(v, result) == IF v = "usdc" THEN <<"weth">> ELSE <<>>

\* index.ts 213-217: isRunning after the run, whatever its outcome
RunningAfterRunNoFinally(outcome) == outcome # "ok"
RunningAfterRun(outcome) == FALSE

\* the cron activation a tick starts: the first one that is not running
FreeCron == IF pc["cron1"] = "idle" THEN "cron1" ELSE "cron2"

(* ----------------------------------------------- history of the calls *)
\* keeper/index.ts 96, 152: a call of executeRebalance or executeHarvest for
\* vault v by a callback whose local variables are loc; authorized, fetched and
\* recommendation record what a cron run had read when it called
NewCall(v, fn, loc) ==
    [run |-> loc.run, vault |-> v, functionName |-> fn,
     authorized |-> loc.status[v], fetched |-> loc.runData.vaults[v].needsRebalance,
     recommendation |-> loc.recommendation,
     steps |-> <<>>, thrown |-> "none", sent |-> NoRequest, txHash |-> NoTx,
     returned |-> FALSE, result |-> NoResult]

\* the call log with step s added to the last call
Step(log, s) == [log EXCEPT ![Len(log)].steps = Append(@, s)]
\* the call log with the last call returned with result r
Returned(log, r) == [log EXCEPT ![Len(log)].returned = TRUE, ![Len(log)].result = r]
\* the call log with the last call ended by an error with this message
Thrown(log, s, message) == [Step(log, s) EXCEPT ![Len(log)].thrown = message]
\* the identity of the last call of log, made by p
CallId(p, log) == <<p, Len(log)>>

(* ------------------------------------------------- the keeper executor *)
\* keeper/index.ts 52, 97, 153: initializeKeeper has set account and walletClient
InitializedAlways == TRUE
Initialized == account

\* keeper/index.ts 97-103
NotInitialized(t, i) ==
    [success |-> FALSE, txHash |-> NoTx, error |-> "Keeper not initialized",
     timestamp |-> t, id |-> i]
\* keeper/index.ts 116-120
RebalanceNotNeeded(t, i) ==
    [success |-> FALSE, txHash |-> NoTx, error |-> "Rebalance not needed",
     timestamp |-> t, id |-> i]
\* keeper/index.ts 143-148, 184-189
Failed(message, t, i) ==
    [success |-> FALSE, txHash |-> NoTx, error |-> ErrorText(message),
     timestamp |-> t, id |-> i]
\* keeper/index.ts 137-142, 178-183
Receipt(receiptStatus, h, t, i) ==
    [success |-> receiptStatus = "success", txHash |-> h, error |-> "",
     timestamp |-> t, id |-> i]

\* keeper/index.ts 115: the early return of executeRebalance
NotNeededNever(needsRebalance) == FALSE
NotNeeded(needsRebalance) == ~needsRebalance

\* keeper/index.ts 123-132, 164-173: writeContract is reached only when
\* simulateContract returned
WriteAfterSimulateAlways(simulated) == TRUE
WriteAfterSimulate(simulated) == simulated

\* the function a caller executes
FunctionOf(p) == IF p = "harvest" THEN "harvest" ELSE "rebalance"

(***************************************************************************)
(* index.ts 201-211: the code of the cron run from the check of the first  *)
(* vault of vs up to its next await or its end.  A call of executeRebalance *)
(* without keeper returns at once (keeper/index.ts 97-103) and the run     *)
(* goes on.  acc.next is the vault whose call is now awaited, or NoVault.  *)
(***************************************************************************)
RECURSIVE CronSync(_, _, _, _)
CronSync(p, vs, loc, acc) ==
    IF vs = <<>> THEN acc
    ELSE LET v == Head(vs)
             log == Append(acc.log, NewCall(v, "rebalance", loc))
         IN IF ~ShouldExecute(v, latestData, loc.status)
            THEN CronSync(p, Tail(vs), loc, acc)
            ELSE IF Initialized
            THEN [acc EXCEPT !.log = log, !.next = v]
            ELSE LET r == NotInitialized(now, CallId(p, log))
                 IN CronSync(p, Tail(vs), loc,
                        [acc EXCEPT
                            !.log = Returned(log, r),
                            !.history = addExecutionToHistory(@, r)])

\* index.ts 213-217: catch and finally; the run's local variables, which were
\* loc, are gone; the log keeps the recommendation and the keeper status the
\* run had obtained
CronEnd(p, outcome, loc) ==
    /\ isRunning' = RunningAfterRun(outcome)
    /\ pc' = [pc EXCEPT ![p] = "idle"]
    /\ local' = [local EXCEPT ![p] = NoLocal]
    /\ runLog' = Append(runLog, [run |-> loc.run, outcome |-> outcome,
                                 recommendation |-> loc.recommendation,
                                 status |-> loc.status])

\* index.ts 199-212: the run, its local variables being loc, goes on with the
\* vaults vs
CronContinue(p, vs, loc, log, history) ==
    LET acc == CronSync(p, vs, loc, [log |-> log, history |-> history, next |-> NoVault])
    IN /\ callLog' = [callLog EXCEPT ![p] = acc.log]
       /\ executionHistory' = acc.history
       /\ IF acc.next = NoVault
          THEN CronEnd(p, "ok", loc)
          ELSE /\ pc' = [pc EXCEPT ![p] = "read"]
               /\ local' = [local EXCEPT ![p] =
                              [loc EXCEPT !.vault = acc.next, !.request = NoRequest,
                                          !.hash = NoTx]]
               /\ UNCHANGED <<isRunning, runLog>>

(* ------------------------------------------------------------ the cron *)
\* index.ts 184-190: a tick of the cron
CronTick ==
    /\ ticks + requests < MaxEvents
    /\ ticks' = ticks + 1
    /\ IF CronBusy
       THEN /\ skipped' = skipped + 1
            /\ UNCHANGED <<programState, requests>>
       ELSE /\ pc[FreeCron] = "idle"
            /\ isRunning' = TRUE
            /\ pc' = [pc EXCEPT ![FreeCron] = "fetch"]
            /\ local' = [local EXCEPT ![FreeCron].timestamp = now,
                                      ![FreeCron].run = ticks + 1]
            /\ UNCHANGED <<storeVars, account, aloneVars, executionHistory, callLog, runLog,
                           response, skipped, requests>>

\* index.ts 190-191: fetchProtocolData resolves; getAIRecommendation starts
\* (ai/index.ts 143-201) and awaits the LLM
CronFetched(p) ==
    /\ p \in CronRuns /\ pc[p] = "fetch"
    /\ \E flags \in FetchedFlags :
         LET data == ProtocolData(local[p].timestamp, flags)
         IN /\ latestData' = data
            /\ apyHistory' = trackApyHistory(apyHistory, now)
            /\ local' = [local EXCEPT ![p].aiData = data, ![p].runData = data]
    /\ pc' = [pc EXCEPT ![p] = "llm"]
    /\ UNCHANGED <<latestRecommendation, isRunning, account, aloneVars, commitmentRegistry,
                   recommendationHistory, executionHistory, callLog, runLog, response,
                   countVars>>

\* index.ts 190, 213-217: fetchProtocolData rejects
CronFetchFailed(p) ==
    /\ p \in CronRuns /\ pc[p] = "fetch"
    /\ CronEnd(p, "fetchError", local[p])
    /\ UNCHANGED <<storeVars, account, aloneVars, executionHistory, callLog, response, countVars>>

\* index.ts 191-212: the LLM call settles; the recommendation is stored and the
\* run decides whether to execute
CronRecommended(p) ==
    /\ p \in CronRuns /\ pc[p] = "llm"
    /\ \E resp \in LLMResponses :
         LET rec == RecommendationOf(resp, local[p].aiData, now)
         IN /\ commitmentRegistry' =
                 IF rec.fallback THEN commitmentRegistry
                 ELSE registerCommitment(commitmentRegistry, rec)
            /\ latestRecommendation' = rec
            /\ recommendationHistory' = addToHistory(recommendationHistory, rec)
            /\ IF ~AutoExecute(rec)
               THEN /\ CronEnd(p, "ok", [local[p] EXCEPT !.recommendation = rec])
                    /\ UNCHANGED <<executionHistory, callLog>>
               ELSE IF ~Initialized
               \* keeper/index.ts 52-58: getKeeperStatus without keeper
               THEN CronContinue(p, <<"usdc", "weth">>,
                                 [local[p] EXCEPT !.recommendation = rec,
                                                  !.status = NoStatus],
                                 callLog[p], executionHistory)
               ELSE /\ pc' = [pc EXCEPT ![p] = "status"]
                    /\ local' = [local EXCEPT ![p].recommendation = rec]
                    /\ UNCHANGED <<executionHistory, callLog, isRunning, runLog>>
    /\ UNCHANGED <<latestData, account, aloneVars, apyHistory, response, countVars>>

\* index.ts 199-212, keeper/index.ts 60-93: the reads of getKeeperStatus resolve
CronStatusRead(p) ==
    /\ p \in CronRuns /\ pc[p] = "status"
    /\ \E usdcKeeper, wethKeeper, usdcOwner, wethOwner \in Addresses :
         CronContinue(p, <<"usdc", "weth">>,
                      [local[p] EXCEPT !.status =
                          isAuthorized(usdcKeeper, wethKeeper, usdcOwner, wethOwner)],
                      callLog[p], executionHistory)
    /\ UNCHANGED <<storeVars, account, aloneVars, response, countVars>>

\* index.ts 199, 213-217: a read of getKeeperStatus rejects
CronStatusFailed(p) ==
    /\ p \in CronRuns /\ pc[p] = "status"
    /\ CronEnd(p, "statusError", local[p])
    /\ UNCHANGED <<storeVars, account, aloneVars, executionHistory, callLog, response, countVars>>

(* ------------------------------------------------ steps of the executor *)
\* index.ts 139-142, 157-160, 203-204, 209-210: the call returns r to its caller,
\* which adds it to the history and goes on
Return(p, log, r) ==
    IF p \in CronRuns
    THEN /\ CronContinue(p, VaultsAfter(local[p].vault, r), local[p],
                         Returned(log, r), addExecutionToHistory(executionHistory, r))
         /\ UNCHANGED response
    ELSE /\ callLog' = [callLog EXCEPT ![p] = Returned(log, r)]
         /\ executionHistory' = addExecutionToHistory(executionHistory, r)
         /\ pc' = [pc EXCEPT ![p] = "idle"]
         /\ local' = [local EXCEPT ![p] = NoLocal]
         /\ response' = [response EXCEPT ![p] = [code |-> 200, error |-> ""]]
         /\ UNCHANGED <<isRunning, runLog>>

\* the call goes on to its next await
Goto(p, log, next, loc) ==
    /\ callLog' = [callLog EXCEPT ![p] = log]
    /\ pc' = [pc EXCEPT ![p] = next]
    /\ local' = [local EXCEPT ![p] = loc]
    /\ UNCHANGED <<executionHistory, isRunning, runLog, response>>

\* what a step of a call leaves alone
ExecFrame == UNCHANGED <<storeVars, account, aloneVars, countVars>>

\* keeper/index.ts 109-121: the needsRebalance read of executeRebalance settles
ExecRead(p) ==
    /\ p \in Executors /\ pc[p] = "read"
    /\ \/ \E needsRebalance \in BOOLEAN :
            LET log == Step(callLog[p],
                            IF needsRebalance THEN "read:true" ELSE "read:false")
            IN IF NotNeeded(needsRebalance)
               THEN Return(p, log, RebalanceNotNeeded(now, CallId(p, log)))
               ELSE Goto(p, log, "simulate", local[p])
       \/ \E message \in ErrorMessages :
            Return(p, Thrown(callLog[p], "read:throw", message),
                   Failed(message, now, CallId(p, callLog[p])))
    /\ ExecFrame

\* keeper/index.ts 124-129, 165-170: simulateContract settles
ExecSimulate(p) ==
    /\ p \in Executors /\ pc[p] = "simulate"
    /\ \E simulated \in BOOLEAN :
         LET log == Step(callLog[p],
                         IF simulated THEN "simulate:ok" ELSE "simulate:throw")
         IN IF WriteAfterSimulate(simulated)
            THEN Goto(p, log, "write",
                      [local[p] EXCEPT !.request =
                          [vault |-> local[p].vault, functionName |-> FunctionOf(p)]])
            ELSE \E message \in ErrorMessages :
                    Return(p, Thrown(callLog[p], "simulate:throw", message),
                           Failed(message, now, CallId(p, log)))
    /\ ExecFrame

\* keeper/index.ts 132, 173: writeContract(request) settles; with a hash the
\* transaction has been submitted
ExecWrite(p) ==
    /\ p \in Executors /\ pc[p] = "write"
    /\ \/ LET h == CallId(p, callLog[p])
              log == [Step(callLog[p], "write:ok") EXCEPT
                        ![Len(callLog[p])].txHash = h,
                        ![Len(callLog[p])].sent = local[p].request]
          IN Goto(p, log, "wait", [local[p] EXCEPT !.hash = h])
       \/ \E message \in ErrorMessages :
            Return(p, Thrown(callLog[p], "write:throw", message),
                   Failed(message, now, CallId(p, callLog[p])))
    /\ ExecFrame

\* keeper/index.ts 135-142, 176-183: waitForTransactionReceipt settles
ExecWait(p) ==
    /\ p \in Executors /\ pc[p] = "wait"
    /\ \/ \E receiptStatus \in {"success", "reverted"} :
            Return(p, Step(callLog[p],
                           IF receiptStatus = "success" THEN "wait:success"
                           ELSE "wait:reverted"),
                   Receipt(receiptStatus, local[p].hash, now, CallId(p, callLog[p])))
       \/ \E message \in ErrorMessages :
            Return(p, Thrown(callLog[p], "wait:throw", message),
                   Failed(message, now, CallId(p, callLog[p])))
    /\ ExecFrame

(* ------------------------------------------------------ the HTTP routes *)
\* the :vault parameter of a request
VaultParams == {"usdc", "weth", "btc"}

\* index.ts 133-135, 151-153: the answer to a :vault that is not a vault
InvalidVaultAccepted == [code |-> 200, error |-> ""]
InvalidVault == [code |-> 400, error |-> "Invalid vault"]

\* index.ts 131-146, 149-164: POST /api/keeper/rebalance/:vault and
\* POST /api/keeper/harvest/:vault arrive
KeeperRequest(p, param, first) ==
    /\ ticks + requests < MaxEvents
    /\ requests' = requests + 1
    /\ pc[p] = "idle"
    /\ IF param \notin Vaults
       THEN /\ response' = [response EXCEPT ![p] = InvalidVault]
            /\ UNCHANGED <<pc, local, callLog, executionHistory>>
       ELSE LET log == Append(callLog[p], NewCall(param, FunctionOf(p), local[p]))
                r == NotInitialized(now, CallId(p, log))
            IN IF Initialized
               THEN /\ callLog' = [callLog EXCEPT ![p] = log]
                    /\ local' = [local EXCEPT ![p].vault = param]
                    /\ pc' = [pc EXCEPT ![p] = first]
                    /\ UNCHANGED <<executionHistory, response>>
               ELSE /\ callLog' = [callLog EXCEPT ![p] = Returned(log, r)]
                    /\ executionHistory' = addExecutionToHistory(executionHistory, r)
                    /\ response' = [response EXCEPT ![p] = [code |-> 200, error |-> ""]]
                    /\ UNCHANGED <<pc, local>>
    /\ UNCHANGED <<storeVars, isRunning, account, aloneVars, runLog, ticks, skipped>>

RebalanceRequest == \E param \in VaultParams : KeeperRequest("rebalance", param, "read")
HarvestRequest == \E param \in VaultParams : KeeperRequest("harvest", param, "simulate")

\* index.ts 75-78: POST /api/analyze arrives
AnalyzeRequest ==
    /\ ticks + requests < MaxEvents
    /\ requests' = requests + 1
    /\ pc["analyze"] = "idle"
    /\ pc' = [pc EXCEPT !["analyze"] = "fetch"]
    /\ local' = [local EXCEPT !["analyze"].timestamp = now]
    /\ UNCHANGED <<storeVars, isRunning, account, aloneVars, executionHistory, callLog, runLog,
                   response, ticks, skipped>>

\* index.ts 78-79: fetchProtocolData resolves; getAIRecommendation starts
AnalyzeFetched ==
    /\ pc["analyze"] = "fetch"
    /\ \E flags \in FetchedFlags :
         LET data == ProtocolData(local["analyze"].timestamp, flags)
         IN /\ latestData' = data
            /\ apyHistory' = trackApyHistory(apyHistory, now)
            /\ local' = [local EXCEPT !["analyze"].aiData = data]
    /\ pc' = [pc EXCEPT !["analyze"] = "llm"]
    /\ UNCHANGED <<latestRecommendation, isRunning, account, aloneVars, commitmentRegistry,
                   recommendationHistory, executionHistory, callLog, runLog, response,
                   countVars>>

\* index.ts 78, 86-88: fetchProtocolData rejects
AnalyzeFetchFailedClearing ==
    /\ pc["analyze"] = "fetch"
    /\ pc' = [pc EXCEPT !["analyze"] = "idle"]
    /\ local' = [local EXCEPT !["analyze"] = NoLocal]
    /\ latestData' = NoData
    /\ latestRecommendation' = NoRecommendation
    /\ \E message \in ErrorMessages :
         response' = [response EXCEPT !["analyze"] = [code |-> 500, error |-> message]]
    /\ UNCHANGED <<apyHistory, commitmentRegistry, recommendationHistory, isRunning,
                   account, aloneVars, executionHistory, callLog, runLog, countVars>>
AnalyzeFetchFailed ==
    /\ pc["analyze"] = "fetch"
    /\ pc' = [pc EXCEPT !["analyze"] = "idle"]
    /\ local' = [local EXCEPT !["analyze"] = NoLocal]
    /\ \E message \in ErrorMessages :
         response' = [response EXCEPT !["analyze"] = [code |-> 500, error |-> message]]
    /\ UNCHANGED <<storeVars, isRunning, account, aloneVars, executionHistory, callLog, runLog,
                   countVars>>

\* index.ts 79-85: the LLM call settles
AnalyzeRecommended ==
    /\ pc["analyze"] = "llm"
    /\ \E resp \in LLMResponses :
         LET rec == RecommendationOf(resp, local["analyze"].aiData, now)
         IN /\ commitmentRegistry' =
                 IF rec.fallback THEN commitmentRegistry
                 ELSE registerCommitment(commitmentRegistry, rec)
            /\ latestRecommendation' = rec
            /\ recommendationHistory' = addToHistory(recommendationHistory, rec)
    /\ pc' = [pc EXCEPT !["analyze"] = "idle"]
    /\ local' = [local EXCEPT !["analyze"] = NoLocal]
    /\ response' = [response EXCEPT !["analyze"] = [code |-> 200, error |-> ""]]
    /\ UNCHANGED <<latestData, isRunning, account, aloneVars, apyHistory, executionHistory,
                   callLog, runLog, countVars>>

(* -------------------------------------------------------- specification *)
Next ==
    \/ CronTick
    \/ \E p \in CronRuns : CronFetched(p)
    \/ \E p \in CronRuns : CronFetchFailed(p)
    \/ \E p \in CronRuns : CronRecommended(p)
    \/ \E p \in CronRuns : CronStatusRead(p)
    \/ \E p \in CronRuns : CronStatusFailed(p)
    \/ \E p \in Executors : ExecRead(p)
    \/ \E p \in Executors : ExecSimulate(p)
    \/ \E p \in Executors : ExecWrite(p)
    \/ \E p \in Executors : ExecWait(p)
    \/ RebalanceRequest
    \/ HarvestRequest
    \/ AnalyzeRequest
    \/ AnalyzeFetched
    \/ AnalyzeFetchFailed
    \/ AnalyzeRecommended

Spec == Init /\ [][Next]_vars

(***************************************************************************)
(* getAIRecommendation on its own (ai/index.ts 143-242): one call with any  *)
(* LLM response, any fetched flags and any clock value.                    *)
(***************************************************************************)
InitAI ==
    /\ InitProgram /\ InitAlone
    /\ aiCall \in {[NoAICall EXCEPT !.resp = r, !.flags = f, !.t = t] :
                      r \in AIResponses, f \in FetchedFlags, t \in 0..MaxEvents}

GetAIRecommendation ==
    /\ ~aiCall.settled
    /\ LET data == ProtocolData(aiCall.t, aiCall.flags)
           rec == RecommendationOf(aiCall.resp, data, aiCall.t)
       IN /\ apyHistory' = trackApyHistory(apyHistory, aiCall.t)
          /\ commitmentRegistry' =
                IF rec.fallback THEN commitmentRegistry
                ELSE registerCommitment(commitmentRegistry, rec)
          /\ aiCall' = [aiCall EXCEPT !.result = rec, !.settled = TRUE]
    /\ UNCHANGED <<latestData, latestRecommendation, isRunning, account,
                   recommendationHistory, executionHistory, pc, local, callLog,
                   runLog, response, countVars, registerCalls, verifyCall, statusCall,
                   historyCalls, lendleCall, dashboard>>

NextAI == GetAIRecommendation

SpecAI == InitAI /\ [][NextAI]_vars

(***************************************************************************)
(* The cached GET routes (index.ts 46-72) next to POST /api/analyze: the    *)
(* handlers that read or fill latestData and latestRecommendation.         *)
(***************************************************************************)
\* what the GET routes leave alone
CacheFrame ==
    UNCHANGED <<isRunning, account, executionHistory, callLog, runLog, ticks, skipped,
                aloneVars>>

\* res.json(body)
Answer(p, body) ==
    response' = [response EXCEPT ![p] = [code |-> 200, error |-> "", body |-> body]]

\* index.ts 47-52: GET /api/data arrives
DataRequest ==
    /\ ticks + requests < MaxEvents
    /\ requests' = requests + 1
    /\ pc["data"] = "idle"
    /\ IF latestData # NoData
       THEN /\ Answer("data", latestData)
            /\ UNCHANGED <<pc, local>>
       ELSE /\ pc' = [pc EXCEPT !["data"] = "fetch"]
            /\ local' = [local EXCEPT !["data"].timestamp = now]
            /\ UNCHANGED response
    /\ UNCHANGED storeVars
    /\ CacheFrame

\* index.ts 50-52: fetchProtocolData resolves
DataFetched ==
    /\ pc["data"] = "fetch"
    /\ \E flags \in FetchedFlags :
         LET data == ProtocolData(local["data"].timestamp, flags)
         IN /\ latestData' = data
            /\ Answer("data", data)
    /\ pc' = [pc EXCEPT !["data"] = "idle"]
    /\ local' = [local EXCEPT !["data"] = NoLocal]
    /\ UNCHANGED <<latestRecommendation, apyHistory, commitmentRegistry,
                   recommendationHistory, requests>>
    /\ CacheFrame

\* index.ts 50, 53-55: fetchProtocolData rejects
DataFetchFailed ==
    /\ pc["data"] = "fetch"
    /\ pc' = [pc EXCEPT !["data"] = "idle"]
    /\ local' = [local EXCEPT !["data"] = NoLocal]
    /\ \E message \in ErrorMessages :
         response' = [response EXCEPT !["data"] = [code |-> 500, error |-> message]]
    /\ UNCHANGED <<storeVars, requests>>
    /\ CacheFrame

\* index.ts 59-68: GET /api/recommendation arrives; without a recommendation
\* it fetches the data when there is none, else getAIRecommendation(latestData)
\* starts (ai/index.ts 143-201)
RecommendationRequest ==
    /\ ticks + requests < MaxEvents
    /\ requests' = requests + 1
    /\ pc["recommendation"] = "idle"
    /\ IF latestRecommendation # NoRecommendation
       THEN /\ Answer("recommendation", latestRecommendation)
            /\ UNCHANGED <<pc, local, apyHistory>>
       ELSE IF latestData = NoData
       THEN /\ pc' = [pc EXCEPT !["recommendation"] = "fetch"]
            /\ local' = [local EXCEPT !["recommendation"].timestamp = now]
            /\ UNCHANGED <<response, apyHistory>>
       ELSE /\ pc' = [pc EXCEPT !["recommendation"] = "llm"]
            /\ local' = [local EXCEPT !["recommendation"].aiData = latestData]
            /\ apyHistory' = trackApyHistory(apyHistory, now)
            /\ UNCHANGED response
    /\ UNCHANGED <<latestData, latestRecommendation, commitmentRegistry,
                   recommendationHistory>>
    /\ CacheFrame

\* index.ts 63-65: fetchProtocolData resolves; getAIRecommendation starts
RecommendationFetched ==
    /\ pc["recommendation"] = "fetch"
    /\ \E flags \in FetchedFlags :
         LET data == ProtocolData(local["recommendation"].timestamp, flags)
         IN /\ latestData' = data
            /\ apyHistory' = trackApyHistory(apyHistory, now)
            /\ local' = [local EXCEPT !["recommendation"].aiData = data]
    /\ pc' = [pc EXCEPT !["recommendation"] = "llm"]
    /\ UNCHANGED <<latestRecommendation, commitmentRegistry, recommendationHistory,
                   response, requests>>
    /\ CacheFrame

\* index.ts 63, 69-71: fetchProtocolData rejects
RecommendationFetchFailed ==
    /\ pc["recommendation"] = "fetch"
    /\ pc' = [pc EXCEPT !["recommendation"] = "idle"]
    /\ local' = [local EXCEPT !["recommendation"] = NoLocal]
    /\ \E message \in ErrorMessages :
         response' = [response EXCEPT
                        !["recommendation"] = [code |-> 500, error |-> message]]
    /\ UNCHANGED <<storeVars, requests>>
    /\ CacheFrame

\* index.ts 65-68: the LLM call settles
RecommendationRecommended ==
    /\ pc["recommendation"] = "llm"
    /\ \E resp \in LLMResponses :
         LET rec == RecommendationOf(resp, local["recommendation"].aiData, now)
         IN /\ commitmentRegistry' =
                 IF rec.fallback THEN commitmentRegistry
                 ELSE registerCommitment(commitmentRegistry, rec)
            /\ latestRecommendation' = rec
            /\ recommendationHistory' = addToHistory(recommendationHistory, rec)
            /\ Answer("recommendation", rec)
    /\ pc' = [pc EXCEPT !["recommendation"] = "idle"]
    /\ local' = [local EXCEPT !["recommendation"] = NoLocal]
    /\ UNCHANGED <<latestData, apyHistory, requests>>
    /\ CacheFrame

NextCache ==
    \/ DataRequest
    \/ DataFetched
    \/ DataFetchFailed
    \/ RecommendationRequest
    \/ RecommendationFetched
    \/ RecommendationFetchFailed
    \/ RecommendationRecommended
    \/ AnalyzeRequest
    \/ AnalyzeFetched
    \/ AnalyzeFetchFailed
    \/ AnalyzeRecommended

SpecCache == Init /\ [][NextCache]_vars

(***************************************************************************)
(* getKeeperStatus on its own (keeper/index.ts 51-94): one call with any    *)
(* addresses returned by keeper() and owner() of the two vaults.           *)
(***************************************************************************)
InitStatus ==
    /\ InitProgram
    /\ aiCall = NoAICall /\ historyCalls = NoHistoryCalls
    /\ lendleCall = NoLendleCall /\ dashboard = NoDashboard
    /\ statusCall \in
          {[NoStatusCall EXCEPT !.usdcKeeper = uk, !.wethKeeper = wk,
                                !.usdcOwner = uo, !.wethOwner = wo] :
              uk \in Addresses, wk \in Addresses, uo \in Addresses, wo \in Addresses}

GetKeeperStatus ==
    /\ ~statusCall.settled
    /\ statusCall' =
         [statusCall EXCEPT
            !.settled = TRUE,
            !.result = IF ~Initialized THEN NoStatus
                       ELSE isAuthorized(statusCall.usdcKeeper, statusCall.wethKeeper,
                                         statusCall.usdcOwner, statusCall.wethOwner)]
    /\ UNCHANGED <<agentVars, aiCall, registerCalls, verifyCall, historyCalls,
                   lendleCall, dashboard>>

NextStatus == GetKeeperStatus

SpecStatus == InitStatus /\ [][NextStatus]_vars

(***************************************************************************)
(* The commitment registry on its own (ai/index.ts 70-90, index.ts          *)
(* 108-118): registerCommitment called with any recommendation, and        *)
(* GET /api/commitments/:hash with any hash.                               *)
(***************************************************************************)
\* the recommendations registerCommitment is called with; reasoning stands for
\* the fields the hash does not read (reasoning, details, marketAnalysis,
\* riskAssessment)
Recommendations ==
    {[action |-> a, confidence |-> c, timestamp |-> 1, commitmentHash |-> NoHash,
      fallback |-> FALSE, reasoning |-> r] :
        a \in {"HOLD", "REBALANCE"}, c \in {90, 300}, r \in {"stable", "drifted"}}
\* the :hash parameters of the requests
Hashes ==
    {generateCommitmentHash(rec) : rec \in Recommendations} \cup {<<"HOLD", 90, 0>>}

\* ai/index.ts 73-78: registerCommitment(rec); encodePacked throws before
\* anything is stored when the confidence does not fit a uint8
Register ==
    /\ Len(registerCalls) < MaxRegistrations
    /\ \E rec \in Recommendations :
         IF CanEncode(rec)
         THEN LET hash == generateCommitmentHash(rec)
                  stored == [rec EXCEPT !.commitmentHash = hash]
              IN /\ commitmentRegistry' = registerCommitment(commitmentRegistry, stored)
                 /\ registerCalls' =
                       Append(registerCalls, [hash |-> hash, recommendation |-> stored])
         ELSE /\ registerCalls' =
                    Append(registerCalls, [hash |-> NoHash, recommendation |-> rec])
              /\ UNCHANGED commitmentRegistry
    /\ UNCHANGED <<latestData, latestRecommendation, isRunning, account, apyHistory,
                   recommendationHistory, executionHistory, pc, local, callLog,
                   runLog, response, countVars, aiCall, verifyCall, statusCall,
                   historyCalls, lendleCall, dashboard>>

\* index.ts 109-118: GET /api/commitments/:hash
VerifyRequest ==
    /\ \E hash \in Hashes :
         LET result == verifyCommitment(commitmentRegistry, hash)
         IN verifyCall' =
              IF ~result.valid
              THEN [hash |-> hash, valid |-> FALSE, recommendation |-> NoRecommendation,
                    code |-> 404, error |-> "Commitment not found or invalid"]
              ELSE [hash |-> hash, valid |-> result.valid,
                    recommendation |-> result.recommendation, code |-> 200,
                    error |-> ""]
    /\ UNCHANGED <<storeVars, isRunning, account, executionHistory, pc, local, callLog,
                   runLog, response, countVars, aiCall, registerCalls, statusCall,
                   historyCalls, lendleCall, dashboard>>

NextCommit == Register \/ VerifyRequest

SpecCommit == Init /\ [][NextCommit]_vars

(* ================================================================ claims *)
\* the cron runs in progress
Running == {p \in CronRuns : pc[p] # "idle"}
\* all the calls of executeRebalance and executeHarvest made so far, as
\* <<caller, index>>
Calls == UNION {{<<p, i>> : i \in 1..Len(callLog[p])} : p \in Executors}
CallOf(c) == callLog[c[1]][c[2]]
CronCalls == {c \in Calls : c[1] \in CronRuns}
\* the entries of the execution history that carry the result of call c
Logged(c) == {k \in 1..Len(executionHistory) : executionHistory[k].id = c}

(* C1: at most one cron run is in progress at any time, and a tick that     *)
(* fires while isRunning is true changes nothing of the program: no fetch,  *)
(* no recommendation, no history entry, no call, no transaction.            *)
C1_SingleRun ==
    /\ [](Cardinality(Running) <= 1)
    /\ [][(ticks' # ticks /\ isRunning) => UNCHANGED programState]_vars
\* a tick has fired while a run was in progress
C1_Witness == skipped > 0 /\ isRunning /\ Cardinality(Running) = 1

(* C2: in a cron run executeRebalance is called for a vault only if the      *)
(* keeper status read in that run reports the keeper authorized for the    *)
(* vault and the protocol data the run fetched reports needsRebalance for  *)
(* it; otherwise the run submits no transaction for the vault.             *)
C2_CalledOnlyIfAuthorizedAndDrifted ==
    \A c \in CronCalls : CallOf(c).authorized /\ CallOf(c).fetched

(* C3: the cron calls executeRebalance only when the recommendation of the  *)
(* run has action REBALANCE and a confidence strictly greater than 80.     *)
C3_OnlyAboveThreshold ==
    \A c \in CronCalls :
        /\ CallOf(c).recommendation.action = "REBALANCE"
        /\ CallOf(c).recommendation.confidence > ConfidenceThreshold

(* C4: a call of executeRebalance, from the cron or from the route, submits *)
(* its transaction only if its own needsRebalance read returned true; when *)
(* the read returned false the call simulates nothing, submits nothing and *)
(* returns success = false with error 'Rebalance not needed'.              *)
C4_OnChainGate ==
    \A c \in Calls :
        LET call == CallOf(c)
        IN call.functionName = "rebalance" =>
            /\ call.txHash # NoTx => (call.steps # <<>> /\ call.steps[1] = "read:true")
            /\ (call.steps # <<>> /\ call.steps[1] = "read:false") =>
                /\ call.steps = <<"read:false">>
                /\ call.txHash = NoTx
                /\ call.returned
                /\ call.result.success = FALSE
                /\ call.result.error = "Rebalance not needed"
                /\ call.result.txHash = NoTx
\* a call from the cron and a call from the route have both returned after
\* their read returned false
C4_Witness ==
    /\ \E c \in CronCalls :
        CallOf(c).steps = <<"read:false">> /\ CallOf(c).returned
    /\ \E c \in Calls :
        /\ c[1] = "rebalance"
        /\ CallOf(c).steps = <<"read:false">> /\ CallOf(c).returned

\* position of step s in the steps of a call, 0 when absent
StepAt(call, s) ==
    IF \E k \in 1..Len(call.steps) : call.steps[k] = s
    THEN CHOOSE k \in 1..Len(call.steps) : call.steps[k] = s
    ELSE 0

(* C5: executeRebalance and executeHarvest simulate, then submit, then wait *)
(* for the receipt: a transaction is written only right after a successful *)
(* simulation of the same vault and function, the receipt is awaited only  *)
(* after the write, and after a failed simulation nothing is submitted and *)
(* the result is success = false with the error's message.                 *)
C5_SimulateSubmitWait ==
    \A c \in Calls :
        LET call == CallOf(c)
            steps == call.steps
        IN /\ \A k \in 1..Len(steps) :
                /\ steps[k] \in {"write:ok", "write:throw"} =>
                      (k > 1 /\ steps[k - 1] = "simulate:ok")
                /\ steps[k] \in {"wait:success", "wait:reverted", "wait:throw"} =>
                      (k > 1 /\ steps[k - 1] = "write:ok")
           /\ call.txHash # NoTx =>
                /\ StepAt(call, "simulate:ok") > 0
                /\ StepAt(call, "write:ok") = StepAt(call, "simulate:ok") + 1
                /\ call.sent = [vault |-> call.vault, functionName |-> call.functionName]
           /\ StepAt(call, "simulate:throw") > 0 =>
                /\ StepAt(call, "simulate:throw") = Len(steps)
                /\ call.txHash = NoTx
                /\ call.returned
                /\ call.result.success = FALSE
                /\ call.result.error = ErrorText(call.thrown)
\* a harvest whose simulation failed has returned, after a rebalance that was
\* submitted and confirmed
C5_Witness ==
    /\ \E c \in Calls :
        /\ CallOf(c).functionName = "harvest"
        /\ StepAt(CallOf(c), "simulate:throw") > 0
        /\ CallOf(c).returned
    /\ \E c \in Calls :
        /\ CallOf(c).functionName = "rebalance"
        /\ CallOf(c).steps = <<"read:true", "simulate:ok", "write:ok", "wait:success">>

(* C6: whatever step of a cron run fails, the run ends with isRunning =     *)
(* false, and the next tick starts the pipeline again.                     *)
C6_FlagReleased ==
    /\ [](Running = {} => isRunning = FALSE)
    /\ [][(ticks' # ticks /\ Running = {}) =>
            (\E p \in CronRuns : pc'[p] = "fetch" /\ local'[p].run = ticks')]_vars
\* a run has ended on a failed keeper status read and the next tick has started
\* a new run
C6_Witness ==
    /\ \E k \in 1..Len(runLog) : runLog[k].outcome = "statusError"
    /\ \E p \in CronRuns : pc[p] = "fetch" /\ local[p].run = 2

(* C7: when the LLM call throws, returns a non-text block or returns text   *)
(* that is not valid JSON, getAIRecommendation returns the static fallback: *)
(* action REBALANCE if the usdc or the weth vault needs a rebalance and    *)
(* HOLD otherwise, confidence 70, no commitment.                           *)
C7_Fallback ==
    (aiCall.settled /\ aiCall.resp.kind \in {"throw", "nontext", "badjson"}) =>
        /\ aiCall.result.fallback
        /\ aiCall.result.action =
              IF aiCall.flags["usdc"] \/ aiCall.flags["weth"] THEN "REBALANCE"
              ELSE "HOLD"
        /\ aiCall.result.confidence = 70
        /\ aiCall.result.commitmentHash = NoHash
        /\ commitmentRegistry = <<>>
\* the LLM returned invalid JSON while only the weth vault needed a rebalance
C7_Witness ==
    /\ aiCall.settled /\ aiCall.resp.kind = "badjson"
    /\ aiCall.flags["weth"] /\ ~aiCall.flags["usdc"]
    /\ aiCall.result.action = "REBALANCE"

(* C8: every ExecutionResult returned by executeRebalance or executeHarvest *)
(* to the cron or to a route is in the execution history exactly once (as  *)
(* long as the history has not reached its cap), failed results included,  *)
(* and the history holds nothing else.                                     *)
C8_EveryResultLogged ==
    Len(executionHistory) < ExecutionHistoryCap =>
        /\ \A c \in Calls :
            IF CallOf(c).returned
            THEN /\ Cardinality(Logged(c)) = 1
                 /\ \A k \in Logged(c) : executionHistory[k] = CallOf(c).result
            ELSE Logged(c) = {}
        /\ \A k \in 1..Len(executionHistory) : executionHistory[k].id \in Calls
\* a failed result of the cron and a failed result of a route are both logged
C8_Witness ==
    /\ \E k \in 1..Len(executionHistory) :
        /\ executionHistory[k].id[1] \in CronRuns
        /\ executionHistory[k].error = "Rebalance not needed"
    /\ \E k \in 1..Len(executionHistory) :
        /\ executionHistory[k].id[1] = "harvest"
        /\ executionHistory[k].success = FALSE

(* C9: for every transaction the keeper submitted, the execution history    *)
(* entry of that call carries the transaction hash, also when waiting for  *)
(* the receipt failed.                                                     *)
C9_HashLogged ==
    \A c \in Calls :
        (CallOf(c).txHash # NoTx /\ CallOf(c).returned) =>
            \E k \in Logged(c) : executionHistory[k].txHash = CallOf(c).txHash

(* C10: within one cron run executeRebalance is called at most once per     *)
(* vault; a failed execution is not attempted again in that run.           *)
C10_NoRetry ==
    \A c, d \in CronCalls :
        (c # d /\ c[1] = d[1] /\ CallOf(c).run = CallOf(d).run) =>
            CallOf(c).vault # CallOf(d).vault
\* the usdc execution of a run failed and the run went on to the weth vault
C10_Witness ==
    \E c, d \in CronCalls :
        /\ c[1] = d[1] /\ c[2] < d[2] /\ CallOf(c).run = CallOf(d).run
        /\ CallOf(c).returned /\ CallOf(c).result.success = FALSE
        /\ CallOf(c).vault = "usdc" /\ CallOf(d).vault = "weth"

(* C11: every recommendation getAIRecommendation returns has an action that *)
(* is one of HOLD, REBALANCE or HARVEST, whatever JSON the LLM returned.    *)
C11_ActionInSet == aiCall.settled => aiCall.result.action \in Actions

(* C12: every recommendation getAIRecommendation returns has a confidence   *)
(* between 0 and 100 inclusive, whatever confidence the LLM's JSON held.    *)
C12_ConfidenceInRange ==
    aiCall.settled => aiCall.result.confidence \in 0..MaxConfidence

\* the hashes registerCommitment has returned so far
ReturnedHashes ==
    {registerCalls[k].hash :
        k \in {i \in 1..Len(registerCalls) : registerCalls[i].hash # NoHash}}
\* the recommendation of the last call of registerCommitment that returned h
LastRegistered(h) ==
    LET last == CHOOSE k \in 1..Len(registerCalls) :
                    /\ registerCalls[k].hash = h
                    /\ \A j \in (k + 1)..Len(registerCalls) : registerCalls[j].hash # h
    IN registerCalls[last].recommendation

(* C13: for every hash registerCommitment has returned, after any later     *)
(* registrations, verifyCommitment(hash) is valid and returns the          *)
(* recommendation registered under that hash, which carries the hash; for  *)
(* a hash never registered it returns valid = false and no recommendation; *)
(* GET /api/commitments/:hash answers 200 with the recommendation in the   *)
(* first case and 404 in the second.                                       *)
C13_RoundTrip ==
    /\ [](/\ \A h \in ReturnedHashes :
               LET v == verifyCommitment(commitmentRegistry, h)
               IN /\ v.valid
                  /\ v.recommendation = LastRegistered(h)
                  /\ v.recommendation.commitmentHash = h
          /\ \A h \in Hashes \ ReturnedHashes :
               verifyCommitment(commitmentRegistry, h) =
                   [valid |-> FALSE, recommendation |-> NoRecommendation])
    /\ [][verifyCall' # verifyCall =>
            IF verifyCall'.hash \in ReturnedHashes
            THEN /\ verifyCall'.code = 200 /\ verifyCall'.valid
                 /\ verifyCall'.recommendation = LastRegistered(verifyCall'.hash)
            ELSE /\ verifyCall'.code = 404 /\ ~verifyCall'.valid
                 /\ verifyCall'.recommendation = NoRecommendation]_vars
\* a hash registered first, with two registrations after it, has been verified
C13_Witness ==
    /\ Len(registerCalls) = MaxRegistrations
    /\ registerCalls[1].hash # NoHash
    /\ registerCalls[2].hash \notin {NoHash, registerCalls[1].hash}
    /\ registerCalls[3].hash = registerCalls[2].hash
    /\ verifyCall.hash = registerCalls[1].hash
    /\ verifyCall.code = 200
    /\ verifyCall.recommendation = registerCalls[1].recommendation

(* C14: two recommendations that agree on action, confidence and timestamp  *)
(* get the same hash whatever their other fields are, and registering the  *)
(* second replaces the first under that hash.                              *)
C14_HashOfThreeFields ==
    /\ \A i, j \in 1..Len(registerCalls) :
        LET a == registerCalls[i].recommendation
            b == registerCalls[j].recommendation
        IN (/\ registerCalls[i].hash # NoHash /\ registerCalls[j].hash # NoHash
            /\ a.action = b.action /\ a.confidence = b.confidence
            /\ a.timestamp = b.timestamp) =>
               registerCalls[i].hash = registerCalls[j].hash
    /\ \A h \in ReturnedHashes :
        /\ h \in DOMAIN commitmentRegistry
        /\ commitmentRegistry[h] = LastRegistered(h)
\* two recommendations that differ only in their reasoning were registered and
\* the registry holds the second
C14_Witness ==
    \E i, j \in 1..Len(registerCalls) :
        /\ i < j /\ j = Len(registerCalls)
        /\ registerCalls[i].hash # NoHash
        /\ registerCalls[i].hash = registerCalls[j].hash
        /\ registerCalls[i].recommendation.reasoning = "stable"
        /\ registerCalls[j].recommendation.reasoning = "drifted"
        /\ commitmentRegistry[registerCalls[j].hash].reasoning = "drifted"

(* C15: a cron run whose recommendation is HARVEST with a confidence above  *)
(* 80, with an initialized keeper, submits a harvest transaction: the run  *)
(* does not end without a harvest sent by it.                              *)
C15_HarvestAutoExecuted ==
    \A k \in 1..Len(runLog) :
        (/\ account
         /\ runLog[k].outcome = "ok"
         /\ runLog[k].recommendation.action = "HARVEST"
         /\ runLog[k].recommendation.confidence > ConfidenceThreshold) =>
            \E c \in CronCalls :
                /\ CallOf(c).run = runLog[k].run
                /\ CallOf(c).functionName = "harvest"
                /\ CallOf(c).txHash # NoTx

(* C16: without a configured keeper no transaction is submitted by any      *)
(* path: every call of executeRebalance or executeHarvest returns at once, *)
(* without any RPC call, success = false and 'Keeper not initialized';     *)
(* getKeeperStatus reports both vaults as not authorized without any RPC   *)
(* read, and no cron run calls executeRebalance.                           *)
C16_NoKeeperNoTransaction ==
    ~account =>
        /\ \A c \in Calls :
            /\ CallOf(c).steps = <<>>
            /\ CallOf(c).txHash = NoTx
            /\ CallOf(c).returned
            /\ CallOf(c).result.success = FALSE
            /\ CallOf(c).result.error = "Keeper not initialized"
        /\ \A p \in Executors : pc[p] \notin {"status", "read", "simulate", "write", "wait"}
        /\ \A k \in 1..Len(runLog) : runLog[k].status = NoStatus
        /\ CronCalls = {}
\* without keeper, a request to a keeper route has been answered and a cron run
\* has ended after a REBALANCE recommendation above the threshold for a vault
\* that needs a rebalance
C16_Witness ==
    /\ ~account
    /\ \E c \in Calls : CallOf(c).returned
    /\ \E k \in 1..Len(runLog) :
        /\ runLog[k].outcome = "ok"
        /\ AutoExecute(runLog[k].recommendation)
    /\ latestData.vaults["usdc"].needsRebalance

(* C17: every recommendation in the recommendation history carries a        *)
(* commitmentHash that is in the commitment registry and for which         *)
(* verifyCommitment returns valid = true.                                  *)
C17_HistoryVerifiable ==
    \A k \in 1..Len(recommendationHistory) :
        LET hash == recommendationHistory[k].commitmentHash
        IN /\ hash # NoHash
           /\ hash \in DOMAIN commitmentRegistry
           /\ verifyCommitment(commitmentRegistry, hash).valid

(* C18: executeRebalance and executeHarvest never throw: when the           *)
(* needsRebalance read, the simulation, the submission or the receipt wait *)
(* throws, the call returns an ExecutionResult with success = false and a  *)
(* non-empty error, and a cron run that made a call ends normally.         *)
C18_FailuresReturned ==
    /\ \A c \in Calls :
        LET call == CallOf(c)
        IN call.thrown # "none" =>
            /\ call.steps[Len(call.steps)] \in
                  {"read:throw", "simulate:throw", "write:throw", "wait:throw"}
            /\ call.returned
            /\ call.result.success = FALSE
            /\ call.result.error # ""
    /\ \A k \in 1..Len(runLog) :
        (\E c \in CronCalls : CallOf(c).run = runLog[k].run) =>
            runLog[k].outcome = "ok"
\* the usdc call of a cron run failed on an error without message and the run
\* went on to the weth vault and ended
C18_Witness ==
    \E c, d \in CronCalls :
        /\ c[1] = d[1] /\ CallOf(c).run = CallOf(d).run
        /\ CallOf(c).vault = "usdc" /\ CallOf(d).vault = "weth"
        /\ CallOf(c).thrown = ""
        /\ CallOf(c).result.error = "Unknown error"
        /\ CallOf(d).thrown = "execution reverted"
        /\ \E k \in 1..Len(runLog) : runLog[k].run = CallOf(c).run

(* C19: when fetchProtocolData fails in a cron run or in POST /api/analyze, *)
(* latestData, latestRecommendation, the recommendation history and the    *)
(* execution history keep their values and no call is made or transaction  *)
(* submitted; POST /api/analyze answers 500 with the error's message.      *)
C19_FetchFailureKeepsState ==
    /\ [](\A k \in 1..Len(runLog) :
            runLog[k].outcome = "fetchError" =>
                /\ runLog[k].recommendation = NoRecommendation
                /\ \A c \in CronCalls : CallOf(c).run # runLog[k].run)
    /\ [][/\ \A p \in CronRuns :
               (pc[p] = "fetch" /\ pc'[p] = "idle") =>
                   UNCHANGED <<latestData, latestRecommendation, recommendationHistory,
                               executionHistory, callLog, commitmentRegistry>>
          /\ (pc["analyze"] = "fetch" /\ pc'["analyze"] = "idle") =>
               /\ UNCHANGED <<latestData, latestRecommendation, recommendationHistory,
                              executionHistory, callLog, commitmentRegistry>>
               /\ response'["analyze"].code = 500
               /\ response'["analyze"].error \in ErrorMessages]_vars
\* POST /api/analyze has answered 500 after a cron run had stored its data and
\* its recommendation
C19_Witness ==
    /\ response["analyze"].code = 500
    /\ latestData # NoData
    /\ latestRecommendation # NoRecommendation
    /\ recommendationHistory # <<>>

\* the steps of an executor call
ExecPcs == {"read", "simulate", "write", "wait"}
\* in this step the call of executeRebalance('usdc') of cron run p returns
UsdcReturns(p) ==
    /\ pc[p] \in ExecPcs /\ local[p].vault = "usdc"
    /\ pc'[p] = "idle" \/ (pc'[p] = "read" /\ local'[p].vault = "weth")
\* in this step cron run p gets the keeper status and does not execute usdc
UsdcSkipped(p) ==
    /\ pc[p] = "status"
    /\ \/ pc'[p] = "read" /\ local'[p].vault = "weth"
       \/ pc'[p] = "idle" /\ runLog'[Len(runLog')].outcome = "ok"
\* the keeper status cron run p holds when it comes to the weth vault in this step
StatusAtWeth(p) ==
    IF pc[p] # "status" THEN local[p].status
    ELSE IF pc'[p] = "idle" THEN runLog'[Len(runLog')].status
    ELSE local'[p].status
\* in this step cron run p calls executeRebalance('weth')
WethAttempted(p) ==
    /\ pc'[p] = "read" /\ local'[p].vault = "weth"
    /\ Len(callLog'[p]) = Len(callLog[p]) + 1
    /\ callLog'[p][Len(callLog'[p])].vault = "weth"
    /\ callLog'[p][Len(callLog'[p])].steps = <<>>

(* C20: in a cron run the usdc vault is handled before the weth vault, the  *)
(* weth call starts only after the usdc call has returned, and the weth    *)
(* rebalance is attempted exactly when its own conditions hold, whether    *)
(* the usdc rebalance was attempted, succeeded or failed.                  *)
C20_UsdcThenWeth ==
    /\ [](/\ \A c, d \in CronCalls :
               (/\ c[1] = d[1] /\ CallOf(c).run = CallOf(d).run
                /\ CallOf(c).vault = "usdc" /\ CallOf(d).vault = "weth") =>
                   c[2] < d[2] /\ CallOf(c).returned
          /\ \A c \in CronCalls : ~CallOf(c).returned => c[2] = Len(callLog[c[1]]))
    /\ [][\A p \in CronRuns :
            (UsdcReturns(p) \/ UsdcSkipped(p)) =>
                (ShouldExecute("weth", latestData, StatusAtWeth(p)) <=> WethAttempted(p))]_vars
\* the first run skipped the usdc vault and called executeRebalance('weth');
\* in the second run the usdc rebalance failed and the weth one was attempted
C20_Witness ==
    \E b, c, d \in CronCalls :
        /\ CallOf(b).run = 1 /\ CallOf(b).vault = "weth"
        /\ \A a \in CronCalls : CallOf(a).run = 1 => a = b
        /\ CallOf(c).run = 2 /\ CallOf(c).vault = "usdc"
        /\ CallOf(c).returned /\ ~CallOf(c).result.success
        /\ CallOf(d).run = 2 /\ CallOf(d).vault = "weth"

\* two addresses are the same hexadecimal string up to the case of its letters
SameAddress(a, b) ==
    \/ a = b
    \/ {a, b} \subseteq {"0xab12", "0xAB12", "0xAb12"}

(* C21: getKeeperStatus reports the keeper authorized for a vault exactly   *)
(* when that vault's keeper() or owner() is the keeper account's address,  *)
(* compared without regard to case; the other vault's keeper and owner     *)
(* play no part.                                                           *)
C21_AuthorizedIff ==
    statusCall.settled =>
        /\ statusCall.result["usdc"] <=>
              /\ account
              /\ \/ SameAddress(statusCall.usdcKeeper, AccountAddress)
                 \/ SameAddress(statusCall.usdcOwner, AccountAddress)
        /\ statusCall.result["weth"] <=>
              /\ account
              /\ \/ SameAddress(statusCall.wethKeeper, AccountAddress)
                 \/ SameAddress(statusCall.wethOwner, AccountAddress)
\* the usdc vault's owner is the keeper account in another case and the weth
\* vault knows another address: only usdc is authorized
C21_Witness ==
    /\ statusCall.settled
    /\ statusCall.usdcKeeper = "0xcd34" /\ statusCall.usdcOwner = "0xAB12"
    /\ statusCall.wethKeeper = "0xcd34" /\ statusCall.wethOwner = "0xcd34"
    /\ statusCall.result = [v \in Vaults |-> v = "usdc"]

\* the vaults whose needsRebalance flag cron run p reads from latestData in
\* this step (index.ts 201, 207)
CheckedNow(p) ==
    IF pc[p] = "status" /\ pc'[p] = "read" /\ local'[p].vault = "usdc" THEN {"usdc"}
    ELSE IF UsdcSkipped(p) THEN {"usdc", "weth"}
    ELSE IF UsdcReturns(p) THEN {"weth"}
    ELSE {}

(* C22: the needsRebalance flags a cron run checks before executing are     *)
(* those of the protocol data the run itself fetched, also when another    *)
(* handler writes latestData during the run.                               *)
C22_OwnSnapshot ==
    [][\A p \in CronRuns : \A v \in CheckedNow(p) :
          latestData.vaults[v].needsRebalance =
              local[p].runData.vaults[v].needsRebalance]_vars

\* the calls whose transaction for vault v is submitted and not yet confirmed
InFlight(v) ==
    {c \in Calls : CallOf(c).vault = v /\ CallOf(c).txHash # NoTx /\ ~CallOf(c).returned}

(* C23: for each vault at most one keeper transaction is in flight at any   *)
(* time, across the cron and the two keeper routes.                        *)
C23_OneInFlight == \A v \in Vaults : Cardinality(InFlight(v)) <= 1

(* C24: in a cron run in which getAIRecommendation returned the static      *)
(* fallback, executeRebalance is not called and nothing is submitted, even *)
(* when a vault needs a rebalance and a keeper is configured.              *)
C24_FallbackNeverExecutes ==
    /\ \A c \in CronCalls : ~CallOf(c).recommendation.fallback
    /\ \A k \in 1..Len(runLog) :
        runLog[k].recommendation.fallback =>
            /\ runLog[k].outcome = "ok"
            /\ runLog[k].status = NoStatus
            /\ \A c \in CronCalls : CallOf(c).run # runLog[k].run
\* with a keeper configured, a run whose fallback recommends REBALANCE for a
\* usdc vault that needs it has ended
C24_Witness ==
    /\ account
    /\ latestData.vaults["usdc"].needsRebalance
    /\ \E k \in 1..Len(runLog) :
        /\ runLog[k].recommendation.fallback
        /\ runLog[k].recommendation.action = "REBALANCE"
        /\ runLog[k].recommendation.timestamp = latestData.timestamp

\* in this step the handler of GET /api/data stores the data it fetched
DataStores == pc["data"] = "fetch" /\ pc'["data"] = "idle" /\ response'["data"].code = 200
\* in this step the handler of GET /api/recommendation stores the data it fetched
RecommendationStoresData ==
    pc["recommendation"] = "fetch" /\ pc'["recommendation"] = "llm"
\* in this step the handler of GET /api/recommendation stores the
\* recommendation it obtained from the LLM
RecommendationStores ==
    pc["recommendation"] = "llm" /\ pc'["recommendation"] = "idle"

(* C25: once latestData is non-null GET /api/data does not fetch or change  *)
(* it, and once latestRecommendation is non-null GET /api/recommendation   *)
(* returns it without calling the LLM, changing latestData or              *)
(* latestRecommendation or adding a history entry: a cached value is never *)
(* replaced by a GET handler.                                              *)
C25_CachedValuesKept ==
    [][/\ latestData # NoData =>
            /\ ~DataStores
            /\ ~RecommendationStoresData
            /\ pc["data"] = "idle" => pc'["data"] = "idle"
       /\ latestRecommendation # NoRecommendation =>
            /\ ~RecommendationStores
            /\ pc["recommendation"] = "idle" =>
                 /\ pc'["recommendation"] = "idle"
                 /\ response'["recommendation"] # response["recommendation"] =>
                      response'["recommendation"].body = latestRecommendation]_vars

(***************************************************************************)
(* The three histories on their own (keeper/index.ts 193-205, ai/index.ts  *)
(* 9-21 and 271-283), from the empty histories of a fresh process, with    *)
(* enough additions to pass the caps.  Date.now() is taken to be the       *)
(* ordinal of the call, so that the entries can be told apart.  An         *)
(* analysis tracks the APYs when getAIRecommendation starts (ai/index.ts   *)
(* 144) and its caller stores the recommendation after the await           *)
(* (index.ts 66, 83, 195).                                                 *)
(***************************************************************************)
InitHistory ==
    /\ InitProgram
    /\ aiCall = NoAICall /\ statusCall = NoStatusCall
    /\ historyCalls = NoHistoryCalls
    /\ lendleCall = NoLendleCall /\ dashboard = NoDashboard

HistoryFrame ==
    UNCHANGED <<latestData, latestRecommendation, isRunning, account,
                commitmentRegistry, pc, local, callLog, runLog, response, ticks,
                skipped, requests, aiCall, registerCalls, verifyCall, statusCall,
                lendleCall, dashboard>>

\* keeper/index.ts 97-103, 116-120: a result that needs no transaction
ExecutionResult(n) ==
    IF Initialized THEN RebalanceNotNeeded(n, n) ELSE NotInitialized(n, n)

\* ai/index.ts 190-242: a recommendation of the analysis number n
HistoryRecommendation(n) ==
    RecommendationOf([kind |-> "ok", action |-> "HOLD", confidence |-> MaxConfidence],
                     NoData, n)

AddExecutionToHistory ==
    /\ historyCalls.executions < MaxExecutions
    /\ LET n == historyCalls.executions + 1
       IN /\ executionHistory' = addExecutionToHistory(executionHistory, ExecutionResult(n))
          /\ historyCalls' = [historyCalls EXCEPT !.executions = n]
    /\ UNCHANGED <<apyHistory, recommendationHistory>>
    /\ HistoryFrame

TrackApyHistory ==
    /\ historyCalls.analyses < MaxAnalyses
    /\ historyCalls.analyses - historyCalls.recommendations < MaxPending
    /\ LET n == historyCalls.analyses + 1
       IN /\ apyHistory' = trackApyHistory(apyHistory, n)
          /\ historyCalls' = [historyCalls EXCEPT !.analyses = n]
    /\ UNCHANGED <<executionHistory, recommendationHistory>>
    /\ HistoryFrame

AddToHistory ==
    /\ historyCalls.recommendations < historyCalls.analyses
    /\ LET n == historyCalls.recommendations + 1
       IN /\ recommendationHistory' =
                addToHistory(recommendationHistory, HistoryRecommendation(n))
          /\ historyCalls' = [historyCalls EXCEPT !.recommendations = n]
    /\ UNCHANGED <<executionHistory, apyHistory>>
    /\ HistoryFrame

NextHistory == AddExecutionToHistory \/ TrackApyHistory \/ AddToHistory

SpecHistory == InitHistory /\ [][NextHistory]_vars

\* the entries of h from the newest to the oldest / from the oldest to the newest
NewestFirst(h) ==
    \A i, j \in 1..Len(h) : i < j => h[i].timestamp > h[j].timestamp
OldestFirst(h) ==
    \A i, j \in 1..Len(h) : i < j => h[i].timestamp < h[j].timestamp
\* h without its last entry
Front(h) == SubSeq(h, 1, Len(h) - 1)

\* C26: the execution history never holds more than 50 entries and is ordered
\* newest first; every call of addExecutionToHistory puts the new result at
\* the front, keeps the others in order and, when the history was full, drops
\* exactly the oldest entry.
C26_ExecutionHistoryCapped ==
    /\ [](/\ Len(executionHistory) <= ExecutionHistoryCap
          /\ NewestFirst(executionHistory))
    /\ [][historyCalls'.executions # historyCalls.executions =>
            /\ Head(executionHistory').timestamp = historyCalls'.executions
            /\ Tail(executionHistory') =
                 IF Len(executionHistory) = ExecutionHistoryCap
                 THEN Front(executionHistory)
                 ELSE executionHistory]_vars

\* the history is full and its oldest entries have been dropped
C26_Witness ==
    /\ Len(executionHistory) = ExecutionHistoryCap
    /\ historyCalls.executions > ExecutionHistoryCap
    /\ executionHistory[ExecutionHistoryCap].timestamp =
         historyCalls.executions - ExecutionHistoryCap + 1

\* C27: the recommendation history never holds more than 100 entries and is
\* ordered newest first, the APY history never holds more than 100 entries and
\* is ordered oldest first; addToHistory puts the new entry at the front,
\* trackApyHistory at the back, and each of them, when its history was full,
\* drops exactly the oldest entry.
C27_AnalysisHistoriesCapped ==
    /\ [](/\ Len(recommendationHistory) <= RecommendationHistoryCap
          /\ NewestFirst(recommendationHistory)
          /\ Len(apyHistory) <= ApyHistoryCap
          /\ OldestFirst(apyHistory))
    /\ [][/\ historyCalls'.recommendations # historyCalls.recommendations =>
               /\ Head(recommendationHistory').timestamp = historyCalls'.recommendations
               /\ Tail(recommendationHistory') =
                    IF Len(recommendationHistory) = RecommendationHistoryCap
                    THEN Front(recommendationHistory)
                    ELSE recommendationHistory
          /\ historyCalls'.analyses # historyCalls.analyses =>
               /\ apyHistory'[Len(apyHistory')].timestamp = historyCalls'.analyses
               /\ Front(apyHistory') =
                    IF Len(apyHistory) = ApyHistoryCap
                    THEN Tail(apyHistory)
                    ELSE apyHistory]_vars

\* both histories are full and their oldest entries have been dropped
C27_Witness ==
    /\ Len(recommendationHistory) = RecommendationHistoryCap
    /\ historyCalls.recommendations > RecommendationHistoryCap
    /\ recommendationHistory[RecommendationHistoryCap].timestamp =
         historyCalls.recommendations - RecommendationHistoryCap + 1
    /\ Len(apyHistory) = ApyHistoryCap
    /\ historyCalls.analyses > ApyHistoryCap
    /\ apyHistory[1].timestamp = historyCalls.analyses - ApyHistoryCap + 1

\* C28: a POST /api/keeper/rebalance/:vault or POST /api/keeper/harvest/:vault
\* whose :vault is neither 'usdc' nor 'weth' is answered 400 'Invalid vault';
\* the step calls neither executeRebalance nor executeHarvest, starts no
\* execution and adds nothing to the execution history.
C28_InvalidVaultRejected ==
    [][\A p \in {"rebalance", "harvest"} :
         \A param \in VaultParams \ {"usdc", "weth"} :
           (\E first \in {"read", "simulate"} : KeeperRequest(p, param, first)) =>
              /\ response'[p].code = 400
              /\ response'[p].error = "Invalid vault"
              /\ callLog' = callLog
              /\ executionHistory' = executionHistory
              /\ pc'[p] = "idle"]_vars

\* both routes have answered 400 'Invalid vault' and nothing was called or
\* added to the history
C28_Witness ==
    /\ response["rebalance"].code = 400 /\ response["rebalance"].error = "Invalid vault"
    /\ response["harvest"].code = 400 /\ response["harvest"].error = "Invalid vault"
    /\ requests = 2
    /\ callLog["rebalance"] = <<>> /\ callLog["harvest"] = <<>>
    /\ executionHistory = <<>>

(***************************************************************************)
(* fetchLendleData on its own (unnamed/part_001 210-241).  The amounts are *)
(* uint256 values decoded into bigints, which do not overflow.  A          *)
(* utilization is kept in hundredths of a percent: the value of            *)
(* Number(n) / 100 is represented by the integer n.                        *)
(***************************************************************************)
ReserveAmounts == 0..MaxReserve
Reserves == ReserveAmounts \X ReserveAmounts \X ReserveAmounts

\* part_001 227-231: total > 0n ? Number((r[1] + r[2]) * 10000n / total) / 100 : 0
UtilizationVariableOnly(reserve) ==
    LET total == reserve[1] + reserve[2] + reserve[3]
    IN IF total > 0 THEN (reserve[3] * 10000) \div total ELSE 0
Utilization(reserve) ==
    LET total == reserve[1] + reserve[2] + reserve[3]
    IN IF total > 0 THEN ((reserve[2] + reserve[3]) * 10000) \div total ELSE 0

InitLendle ==
    /\ InitProgram
    /\ aiCall = NoAICall /\ statusCall = NoStatusCall
    /\ historyCalls = NoHistoryCalls /\ dashboard = NoDashboard
    /\ lendleCall \in
          {[NoLendleCall EXCEPT !.usdcReserve = u, !.wethReserve = w] :
              u \in Reserves, w \in Reserves}

LendleFrame ==
    UNCHANGED <<agentVars, aiCall, registerCalls, verifyCall, statusCall, historyCalls,
                dashboard>>

\* part_001 211-240: both reads resolve
FetchLendleData ==
    /\ ~lendleCall.settled
    /\ lendleCall' =
         [lendleCall EXCEPT
            !.settled = TRUE,
            !.usdcUtilization = Utilization(lendleCall.usdcReserve),
            !.wethUtilization = Utilization(lendleCall.wethReserve)]
    /\ LendleFrame

\* part_001 211-224: a read rejects and so does fetchLendleData
FetchLendleDataRejected ==
    /\ ~lendleCall.settled
    /\ lendleCall' = [lendleCall EXCEPT !.settled = TRUE, !.rejected = TRUE]
    /\ LendleFrame

NextLendle == FetchLendleData \/ FetchLendleDataRejected

SpecLendle == InitLendle /\ [][NextLendle]_vars

\* utilization is the rounded-down quotient for the reserve, in hundredths of
\* a percent
ExpectedUtilization(reserve, utilization) ==
    LET debt == reserve[2] + reserve[3]
        total == reserve[1] + debt
    IN /\ utilization \in 0..10000
       /\ total = 0 => utilization = 0
       /\ total # 0 =>
            /\ utilization * total <= debt * 10000
            /\ debt * 10000 < (utilization + 1) * total

\* C29: for every reserve reading the utilization returned by fetchLendleData
\* is (stable debt + variable debt) * 10000 / (available liquidity + stable debt
\* + variable debt), rounded down, over 100; it lies between 0 and 100, and it is
\* 0 when the total is 0.
C29_Utilization ==
    (lendleCall.settled /\ ~lendleCall.rejected) =>
        /\ ExpectedUtilization(lendleCall.usdcReserve, lendleCall.usdcUtilization)
        /\ ExpectedUtilization(lendleCall.wethReserve, lendleCall.wethUtilization)

\* a reading with an empty reserve and one with debts that do not divide evenly
C29_Witness ==
    /\ lendleCall.settled /\ ~lendleCall.rejected
    /\ lendleCall.usdcReserve = <<0, 0, 0>> /\ lendleCall.usdcUtilization = 0
    /\ lendleCall.wethReserve = <<1, 1, 1>> /\ lendleCall.wethUtilization = 6666

(***************************************************************************)
(* The dashboard (frontend/src/app/page.tsx).  A state update renders Home *)
(* and then runs the effect of the agent loop, whose dependencies are      *)
(* agentConfig, recommendation, keeperStatus and data (page.tsx 265): an   *)
(* action that sets one of them ends with the evaluation of the loop.      *)
(* Every setter is given a new object, so every update renders.  The       *)
(* effect returns no cleanup: a callback handed to setTimeout runs 2 s     *)
(* later whatever happened in between.                                     *)
(***************************************************************************)
DashboardThresholds == {80, 95}
DashboardConfidences == {79, 80}
DashboardRecommendations ==
    {[NoRecommendation EXCEPT !.action = a, !.confidence = c, !.timestamp = 0] :
        a \in Actions, c \in DashboardConfidences}

\* page.tsx 246-256: the vault for which the loop asks a rebalance, or NoVault
RebalanceVault(d) ==
    IF /\ d.recommendation.confidence >= d.agentConfig.confidenceThreshold
       /\ d.recommendation.action = "REBALANCE"
       /\ d.agentConfig.autoRebalance
    THEN IF d.data # NoData /\ d.data.vaults["usdc"].needsRebalance
            /\ d.keeperStatus.isAuthorized["usdc"]
         THEN "usdc"
         ELSE IF d.data # NoData /\ d.data.vaults["weth"].needsRebalance
                 /\ d.keeperStatus.isAuthorized["weth"]
         THEN "weth"
         ELSE NoVault
    ELSE NoVault

\* page.tsx 258-264
HarvestVault(d) ==
    IF /\ d.recommendation.confidence >= d.agentConfig.confidenceThreshold
       /\ d.recommendation.action = "HARVEST"
       /\ d.agentConfig.autoHarvest
       /\ d.keeperStatus.isAuthorized["usdc"]
    THEN "usdc"
    ELSE NoVault

\* page.tsx 243-265: the callbacks one evaluation of the effect hands to setTimeout
AgentLoop(d) ==
    IF ~d.agentConfig.enabled \/ d.recommendation = NoRecommendation
       \/ ~d.keeperStatus.loaded
    THEN <<>>
    ELSE (IF RebalanceVault(d) = NoVault THEN <<>>
          ELSE <<[action |-> "rebalance", vault |-> RebalanceVault(d)]>>)
         \o
         (IF HarvestVault(d) = NoVault THEN <<>>
          ELSE <<[action |-> "harvest", vault |-> HarvestVault(d)]>>)

\* the dashboard after a render with the state d
Rendered(d) == [d EXCEPT !.timers = @ \o AgentLoop(d)]

DashboardFrame ==
    UNCHANGED <<agentVars, aiCall, registerCalls, verifyCall, statusCall, historyCalls,
                lendleCall>>

\* an update of the state to d: the render and the effect
Update(d) ==
    /\ dashboard.mounted
    /\ Len(Rendered(d).timers) <= MaxTimers
    /\ dashboard' = Rendered(d)
    /\ DashboardFrame

InitDashboard ==
    /\ InitProgram /\ ~account
    /\ aiCall = NoAICall /\ statusCall = NoStatusCall
    /\ historyCalls = NoHistoryCalls /\ lendleCall = NoLendleCall
    /\ dashboard = NoDashboard

\* page.tsx 243-265, 303-307: the first render; the effects run, fetchData starts
Mount ==
    /\ ~dashboard.mounted
    /\ dashboard' = Rendered([dashboard EXCEPT !.mounted = TRUE, !.poll = "fetch"])
    /\ DashboardFrame

\* page.tsx 305: the interval calls fetchData
Poll ==
    /\ dashboard.poll = "idle"
    /\ Update([dashboard EXCEPT !.poll = "fetch"])

\* page.tsx 163-172, 179-183: the three fetches have resolved, and dataRes.json()
\* if dataRes.ok; or one of them rejected
PollFetched ==
    /\ dashboard.poll = "fetch"
    /\ \/ \E flags \in FetchedFlags :
            Update([dashboard EXCEPT !.data = ProtocolData(0, flags),
                                     !.poll = "recommendation"])
       \/ dashboard' = [dashboard EXCEPT !.poll = "recommendation"] /\ DashboardFrame
       \/ dashboard' = [dashboard EXCEPT !.poll = "idle"] /\ DashboardFrame

\* page.tsx 173-175: recRes.json() has resolved, if recRes.ok
PollRecommendation ==
    /\ dashboard.poll = "recommendation"
    /\ \/ \E rec \in DashboardRecommendations :
            Update([dashboard EXCEPT !.recommendation = rec, !.poll = "status"])
       \/ dashboard' = [dashboard EXCEPT !.poll = "status"] /\ DashboardFrame

\* page.tsx 176-183: keeperRes.json() has resolved, if keeperRes.ok
PollKeeperStatus ==
    /\ dashboard.poll = "status"
    /\ \/ \E status \in FetchedFlags :
            Update([dashboard EXCEPT
                      !.keeperStatus = [loaded |-> TRUE, isAuthorized |-> status],
                      !.poll = "idle"])
       \/ dashboard' = [dashboard EXCEPT !.poll = "idle"] /\ DashboardFrame

\* page.tsx 186-205: the answer to the POST /api/analyze of runAnalysis
AnalysisShown ==
    \E flags \in FetchedFlags, rec \in DashboardRecommendations :
        Update([dashboard EXCEPT !.data = ProtocolData(0, flags),
                                 !.recommendation = rec])

\* page.tsx 393: the agent mode switch
ToggleEnabled ==
    Update([dashboard EXCEPT !.agentConfig.enabled = ~@])

\* page.tsx 416: the threshold slider
SetConfidenceThreshold ==
    \E t \in DashboardThresholds :
        Update([dashboard EXCEPT !.agentConfig.confidenceThreshold = t])

\* page.tsx 433, 442: the two checkboxes
SetAutoRebalance ==
    Update([dashboard EXCEPT !.agentConfig.autoRebalance = ~@])
SetAutoHarvest ==
    Update([dashboard EXCEPT !.agentConfig.autoHarvest = ~@])

\* page.tsx 207-210, 252, 255, 262: a callback of setTimeout runs;
\* executeAgentAction sends POST /api/keeper/<action>/<vault>.  What it does
\* with the answer (page.tsx 211-238) changes no dependency of the loop.
TimerFires ==
    /\ dashboard.timers # <<>>
    /\ dashboard' = [dashboard EXCEPT !.timers = Tail(@)]
    /\ DashboardFrame

NextDashboard ==
    \/ Mount \/ Poll \/ PollFetched \/ PollRecommendation \/ PollKeeperStatus
    \/ AnalysisShown \/ ToggleEnabled \/ SetConfidenceThreshold
    \/ SetAutoRebalance \/ SetAutoHarvest \/ TimerFires

SpecDashboard == InitDashboard /\ [][NextDashboard]_vars

\* the conditions for an automatic rebalance of v
MayRebalance(d, v) ==
    /\ d.agentConfig.enabled
    /\ d.agentConfig.autoRebalance
    /\ d.recommendation.action = "REBALANCE"
    /\ d.recommendation.confidence >= d.agentConfig.confidenceThreshold
    /\ d.data.vaults[v].needsRebalance
    /\ d.keeperStatus.isAuthorized[v]

\* the request sent in this step, if one is sent
SendsRebalance(v) ==
    /\ Len(dashboard'.timers) < Len(dashboard.timers)
    /\ Head(dashboard.timers) = [action |-> "rebalance", vault |-> v]

\* the rebalance callbacks handed to setTimeout in this step
ScheduledRebalances ==
    LET n == Len(dashboard.timers)
        m == Len(dashboard'.timers)
    IN IF m <= n THEN {}
       ELSE {i \in (n + 1)..m : dashboard'.timers[i].action = "rebalance"}

\* C30: an automatic rebalance of a vault is requested only when agent mode is
\* enabled, autoRebalance is on, the recommendation is REBALANCE with a
\* confidence at or above the threshold, the displayed data reports
\* needsRebalance for the vault and the keeper status reports authorization for
\* it; agent mode is disabled by default; one evaluation schedules at most one
\* rebalance request, for WETH only when USDC does not qualify.
C30_AutoRebalanceOnlyWhenAllowed ==
    /\ ~dashboard.mounted => ~dashboard.agentConfig.enabled
    /\ [][/\ \A v \in Vaults : SendsRebalance(v) => MayRebalance(dashboard, v)
          /\ Cardinality(ScheduledRebalances) <= 1
          /\ \A i \in ScheduledRebalances :
               /\ MayRebalance(dashboard', dashboard'.timers[i].vault)
               /\ dashboard'.timers[i].vault = "weth" =>
                    ~MayRebalance(dashboard', "usdc")]_vars

====
